---------------------------- MODULE Spec2Model ----------------------------
(***************************************************************************)
(* A model of the PDF-to-EPUB converter's text-structuring pipeline        *)
(* (src/pdf_to_epub.py): the Line Merger (_merge_split_lines), the Chapter *)
(* Boundary Detector (_detect_chapters), the Paragraph Segmenter           *)
(* (_detect_paragraphs), the Content Renderer (_add_intro_to_epub,         *)
(* _add_chapters_to_epub) and the navigation builder (_build_navigation).  *)
(*                                                                         *)
(* Python strings are TLA+ strings, handled character by character with    *)
(* Len, \o, SubSeq, Head and Tail.  The alphabet is ASCII; the only line   *)
(* break is "\n" (the input lines come from str.splitlines, so no line of  *)
(* the model holds a line break).                                          *)
(***************************************************************************)
EXTENDS Integers, Sequences, FiniteSets, TLC

(***************************************************************************)
(* Bounds of the model.                                                    *)
(***************************************************************************)
MaxLines == 3

\* the longest token given to the Numeral Normalizer, but for the examples
MaxToken == 3

\* the numbers whose canonical Roman numeral is given to the Numeral Normalizer
MaxNumber == 3999

(***************************************************************************)
(* Python string primitives.                                               *)
(***************************************************************************)
Char(s, i) == SubSeq(s, i, i)

Whitespace == {" ", "\t", "\n"}

RECURSIVE LStrip(_)
LStrip(s) == IF s = "" THEN ""
             ELSE IF Head(s) \in Whitespace THEN LStrip(Tail(s)) ELSE s

RECURSIVE RStrip(_)
RStrip(s) == IF s = "" THEN ""
             ELSE IF Char(s, Len(s)) \in Whitespace
                  THEN RStrip(SubSeq(s, 1, Len(s) - 1)) ELSE s

\* str.strip()
Strip(s) == RStrip(LStrip(s))

\* the least index from start on whose character is (is not) in chars, or
\* Len(s) + 1 when there is none
FirstIn(s, start, chars) ==
    LET hits == {i \in start..Len(s) : Char(s, i) \in chars}
    IN  IF hits = {} THEN Len(s) + 1 ELSE CHOOSE i \in hits : \A j \in hits : i <= j

FirstNotIn(s, start, chars) ==
    LET hits == {i \in start..Len(s) : Char(s, i) \notin chars}
    IN  IF hits = {} THEN Len(s) + 1 ELSE CHOOSE i \in hits : \A j \in hits : i <= j

RECURSIVE SplitLinesAcc(_, _, _)
\* the lines of s from index start on, appended to acc
SplitLinesAcc(s, start, acc) ==
    IF start > Len(s) THEN acc
    ELSE LET nl == FirstIn(s, start, {"\n"})
         IN  SplitLinesAcc(s, nl + 1, Append(acc, SubSeq(s, start, nl - 1)))

\* str.splitlines(): no empty last piece after a final line break
SplitLines(s) == SplitLinesAcc(s, 1, <<>>)

RECURSIVE SplitAcc(_, _, _)
\* the words of s from index start on, appended to acc
SplitAcc(s, start, acc) ==
    LET b == FirstNotIn(s, start, Whitespace)
    IN  IF b > Len(s) THEN acc
        ELSE LET e == FirstIn(s, b, Whitespace)
             IN  SplitAcc(s, e, Append(acc, SubSeq(s, b, e - 1)))

\* str.split(): the words between runs of whitespace
Split(s) == SplitAcc(s, 1, <<>>)

RECURSIVE Join(_, _)
\* sep.join(seq)
Join(seq, sep) == IF seq = <<>> THEN ""
                  ELSE IF Len(seq) = 1 THEN seq[1]
                  ELSE seq[1] \o sep \o Join(Tail(seq), sep)

\* needle in hay
Contains(hay, needle) ==
    \E i \in 1..(Len(hay) - Len(needle) + 1) :
        SubSeq(hay, i, i + Len(needle) - 1) = needle

\* s.endswith(tuple of one-character strings)
EndsWithAny(s, chars) == s # "" /\ Char(s, Len(s)) \in chars

LowerAlpha == "abcdefghijklmnopqrstuvwxyz"
UpperAlpha == "ABCDEFGHIJKLMNOPQRSTUVWXYZ"
Digits == "0123456789"
LowerSet == {Char(LowerAlpha, i) : i \in 1..26}
UpperSet == {Char(UpperAlpha, i) : i \in 1..26}
DigitSet == {Char(Digits, i) : i \in 1..10}
UpperOf == [c \in LowerSet |->
              Char(UpperAlpha, CHOOSE i \in 1..26 : Char(LowerAlpha, i) = c)]
DigitVal == [c \in DigitSet |-> (CHOOSE i \in 1..10 : Char(Digits, i) = c) - 1]

RECURSIVE Upper(_)
\* str.upper(), by halves
Upper(s) == IF s = "" THEN ""
            ELSE IF Len(s) = 1 THEN (IF s \in LowerSet THEN UpperOf[s] ELSE s)
            ELSE Upper(SubSeq(s, 1, Len(s) \div 2))
                 \o Upper(SubSeq(s, Len(s) \div 2 + 1, Len(s)))

\* str.isupper() of one character
IsUpperChar(c) == c \in UpperSet

\* every character of s is in chars, and s is not empty
AllIn(s, chars) == s # "" /\ \A i \in 1..Len(s) : Char(s, i) \in chars

\* str.isnumeric() on ASCII text
IsNumeric(s) == AllIn(s, DigitSet)

RECURSIVE ParseInt(_)
\* int(s) of a numeric string
ParseInt(s) == IF s = "" THEN 0
               ELSE 10 * ParseInt(SubSeq(s, 1, Len(s) - 1)) + DigitVal[Char(s, Len(s))]

RECURSIVE IntToStr(_)
\* str(n), n >= 0
IntToStr(n) == IF n < 10 THEN Char(Digits, n + 1)
               ELSE IntToStr(n \div 10) \o Char(Digits, (n % 10) + 1)

(***************************************************************************)
(* _strip_tags: re.sub(r"<[^>]*>", "", text).                              *)
(***************************************************************************)
\* what follows the first ">" of s
AfterGt(s) == SubSeq(s, FirstIn(s, 1, {">"}) + 1, Len(s))

RECURSIVE StripTags(_)
\* the leftmost "<" that has a ">" after it opens a tag that ends at the
\* first such ">"; a "<" with no ">" after it stays
StripTags(s) ==
    LET lt == FirstIn(s, 1, {"<"})
    IN  IF lt > Len(s) \/ ~Contains(SubSeq(s, lt + 1, Len(s)), ">") THEN s
        ELSE SubSeq(s, 1, lt - 1) \o StripTags(AfterGt(SubSeq(s, lt + 1, Len(s))))

(***************************************************************************)
(* Numeral Normalizer: _roman_to_int and _convert_line_if_roman.           *)
(***************************************************************************)
RomanLetters == {"I", "V", "X", "L", "C", "D", "M"}

\* roman_map.get(char, 0)
RomanValue(c) ==
    CASE c = "I" -> 1 [] c = "V" -> 5 [] c = "X" -> 10 [] c = "L" -> 50
      [] c = "C" -> 100 [] c = "D" -> 500 [] c = "M" -> 1000 [] OTHER -> 0

RECURSIVE RomanScan_NonStrict(_, _, _, _)
\* a scan that also subtracts a symbol equal to the one on its right
RomanScan_NonStrict(roman, i, value, prev_value) ==
    IF i = 0 THEN value
    ELSE LET current_value == RomanValue(Char(roman, i))
         IN  RomanScan_NonStrict(roman, i - 1,
                                 IF current_value <= prev_value
                                 THEN value - current_value
                                 ELSE value + current_value,
                                 current_value)

RECURSIVE RomanScan(_, _, _, _)
\* the loop over reversed(roman): i runs from the last character down to 1
RomanScan(roman, i, value, prev_value) ==
    IF i = 0 THEN value
    ELSE LET current_value == RomanValue(Char(roman, i))
         IN  RomanScan(roman, i - 1,
                       IF current_value < prev_value
                       THEN value - current_value ELSE value + current_value,
                       current_value)

RomanToInt(roman) == RomanScan(roman, Len(roman), 0, 0)

\* _convert_line_if_roman: an integer for a Roman token, else the line itself
ConvertLineIfRoman(line) ==
    LET stripped_line == Upper(Strip(line))
    IN  IF AllIn(stripped_line, RomanLetters)
        THEN [isInt |-> TRUE, int |-> RomanToInt(stripped_line), str |-> ""]
        ELSE [isInt |-> FALSE, int |-> 0, str |-> line]

\* str(v).isnumeric(), v the value _convert_line_if_roman returned
ResolvedIsNumeric(v) == IF v.isInt THEN v.int >= 0 ELSE IsNumeric(v.str)

\* int(str(v)) of such a value whose string is numeric
ResolvedInt(v) == IF v.isInt THEN v.int ELSE ParseInt(v.str)

(***************************************************************************)
(* Pattern Builder: _generate_textual_numbers, _build_chapter_pattern and  *)
(* _build_prologue_epilogue_pattern.  Both patterns are compiled with      *)
(* re.IGNORECASE and anchored, so a match is decided on the upper-cased    *)
(* line.                                                                   *)
(***************************************************************************)
Units == {"ONE", "TWO", "THREE", "FOUR", "FIVE", "SIX", "SEVEN", "EIGHT", "NINE"}
Teens == {"TEN", "ELEVEN", "TWELVE", "THIRTEEN", "FOURTEEN", "FIFTEEN",
          "SIXTEEN", "SEVENTEEN", "EIGHTEEN", "NINETEEN"}
Tens == {"TWENTY", "THIRTY", "FORTY", "FIFTY", "SIXTY", "SEVENTY", "EIGHTY", "NINETY"}

BelowHundred ==
    Units \cup Teens \cup Tens
    \cup {t \o "-" \o u : t \in Tens, u \in Units}
    \cup {t \o " " \o u : t \in Tens, u \in Units}

Hundreds ==
    {u \o " HUNDRED" : u \in Units}
    \cup {u \o " HUNDRED AND " \o n : u \in Units, n \in BelowHundred}

TextualNumbers == BelowHundred \cup Hundreds \cup {"ONE THOUSAND"}

\* (?:[:\-\s]+.+)?$ : nothing, or a separator and at least one more character
TitleTailOK(rem) ==
    rem = "" \/ (Len(rem) >= 2 /\ Head(rem) \in ({":", "-"} \cup Whitespace))

\* \d{1,3}(?=\b) | [IVXLCDM]+ | textual number, then the optional title tail
NumeralThenTail(r) ==
    \E k \in 1..Len(r) :
        /\ TitleTailOK(SubSeq(r, k + 1, Len(r)))
        /\ \/ k <= 3 /\ AllIn(SubSeq(r, 1, k), DigitSet)
           \/ AllIn(SubSeq(r, 1, k), RomanLetters)
           \/ SubSeq(r, 1, k) \in TextualNumbers

\* chapter_pattern.match(s) is not None
ChapterPatternMatch(s) ==
    LET u == Upper(s)
        rest == SubSeq(u, 8, Len(u))
    IN  \/ AllIn(u, RomanLetters)
        \/ (Len(u) <= 3 /\ AllIn(u, DigitSet))
        \/ /\ Len(u) >= 9
           /\ SubSeq(u, 1, 7) = "CHAPTER"
           /\ Head(rest) \in Whitespace
           /\ NumeralThenTail(LStrip(rest))

FrontMatterWords ==
    {"PROLOGUE", "EPILOGUE", "PREFACE", "FOREWORD", "INTRODUCTION",
     "AFTERWORD", "POSTSCRIPT"}

\* prologue_epilogue_pattern.match(s) is not None
PrologueEpiloguePatternMatch(s) == Upper(s) \in FrontMatterWords

(***************************************************************************)
(* Line Merger: _merge_split_lines.  The loop's state is the text built so *)
(* far and prev_is_chapter.                                                *)
(***************************************************************************)
TerminalChars == {".", ":", "!", "?", "\n", "\"", "'", ")", "]", "}"}

\* a variant that classifies the line with its tags still in it
IsChapterLine_WithTags(stripped_line) ==
    \/ ChapterPatternMatch(stripped_line)
    \/ PrologueEpiloguePatternMatch(stripped_line)

\* is_chapter, decided on the stripped line without its tags
IsChapterLine(stripped_line) ==
    LET stripped_line_wo_tags == StripTags(stripped_line)
    IN  \/ ChapterPatternMatch(stripped_line_wo_tags)
        \/ PrologueEpiloguePatternMatch(stripped_line_wo_tags)

\* a variant that leaves no line break after the heading
EmitHeading_NoBreakAfter(text, stripped_line) ==
    text \o (IF text # "" THEN "\n" ELSE "") \o "\n" \o stripped_line

\* the text a heading line leaves behind
EmitHeading(text, stripped_line) ==
    text \o (IF text # "" THEN "\n" ELSE "") \o "\n" \o stripped_line \o "\n"

\* a variant that closes no line after a heading with a line break
MergeStep_NoSubtitleBreak(st, line) ==
    LET stripped_line == Strip(line)
    IN  IF stripped_line = "" THEN st
        ELSE IF IsChapterLine(stripped_line)
        THEN [text |-> EmitHeading(st.text, stripped_line), prev |-> TRUE]
        ELSE IF st.text # "" /\ ~EndsWithAny(st.text, TerminalChars)
        THEN [text |-> st.text \o " " \o stripped_line, prev |-> FALSE]
        ELSE [text |-> st.text \o (IF st.text # "" THEN "\n" ELSE "")
                       \o stripped_line,
              prev |-> FALSE]

\* one iteration of the loop over the input lines
MergeStep(st, line) ==
    LET stripped_line == Strip(line)
    IN  IF stripped_line = "" THEN st
        ELSE IF IsChapterLine(stripped_line)
        THEN [text |-> EmitHeading(st.text, stripped_line), prev |-> TRUE]
        ELSE IF st.text # "" /\ ~EndsWithAny(st.text, TerminalChars)
        THEN [text |-> st.text \o " " \o stripped_line, prev |-> FALSE]
        ELSE [text |-> st.text \o (IF st.text # "" THEN "\n" ELSE "")
                       \o stripped_line
                       \o (IF Len(Split(StripTags(stripped_line))) = 1 /\ st.prev
                           THEN "\n" ELSE ""),
              prev |-> FALSE]

RECURSIVE MergeFrom(_, _, _)
MergeFrom(lns, i, st) ==
    IF i > Len(lns) THEN st.text ELSE MergeFrom(lns, i + 1, MergeStep(st, lns[i]))

\* _merge_split_lines as a function of its argument
MergeSplitLines(lns) == MergeFrom(lns, 1, [text |-> "", prev |-> FALSE])

(***************************************************************************)
(* Chapter Boundary Detector: the decisions of _detect_chapters.           *)
(* Line indices are Python's (from 0); lines is a TLA+ sequence (from 1).  *)
(***************************************************************************)
\* clean_line
CleanLine(line) == StripTags(Strip(line))

\* a variant whose numeric test is inverted
IsSkipped_Inverted(clean_line, number, prev) ==
    LET v == ConvertLineIfRoman(clean_line)
    IN  ~ResolvedIsNumeric(v) \/ prev

\* the condition under which a chapter-pattern line is skipped
IsSkipped(clean_line, number, prev) ==
    LET v == ConvertLineIfRoman(clean_line)
    IN  (ResolvedIsNumeric(v) /\ ResolvedInt(v) # number) \/ prev

\* a variant that takes the first short line among the next two
ChapterName_AnyShort(lns, i, clean_line) ==
    LET cand == {j \in (i + 1)..(i + 2) :
                    /\ j < Len(lns)
                    /\ Strip(lns[j + 1]) # ""
                    /\ Len(Split(StripTags(Strip(lns[j + 1])))) <= 2}
    IN  IF cand = {} THEN clean_line
        ELSE clean_line \o " "
                 \o Strip(lns[(CHOOSE k \in cand : \A m \in cand : k <= m) + 1])

\* chapter_name: the heading, and a subtitle of one or two words when the
\* first non-blank line among the next two is that short
ChapterName(lns, i, clean_line) ==
    LET cand == {j \in (i + 1)..(i + 2) : j < Len(lns) /\ Strip(lns[j + 1]) # ""}
    IN  IF cand = {} THEN clean_line
        ELSE LET j == CHOOSE k \in cand : \A m \in cand : k <= m
                 next_line == Strip(lns[j + 1])
             IN  IF Len(Split(StripTags(next_line))) <= 2
                 THEN clean_line \o " " \o next_line ELSE clean_line

\* a variant that knows the word in upper case only
EpilogueFirst_CaseSensitive(clean_line, starts) ==
    clean_line = "EPILOGUE" /\ Len(starts) = 0

\* an EPILOGUE that would be the first registered element is not registered
EpilogueFirst(clean_line, starts) == Upper(clean_line) = "EPILOGUE" /\ Len(starts) = 0

\* a variant whose slices start one line late
ChaptersOf_LateStart(lns, s, names) ==
    [k \in 1..(Len(s) - 1) |->
        [text |-> Strip(Join(SubSeq(lns, s[k] + 2, s[k + 1]), "\n")),
         name |-> names[k]]]

\* the chapters built from the boundaries, the end-of-text boundary included
ChaptersOf(lns, s, names) ==
    [k \in 1..(Len(s) - 1) |->
        [text |-> Strip(Join(SubSeq(lns, s[k] + 1, s[k + 1]), "\n")),
         name |-> names[k]]]

\* the value _detect_chapters returns: chapters and introductory lines
DetectResult(text, lns, starts, names) ==
    LET s == Append(starts, Len(lns))
    IN  IF s # <<>>
        THEN [chapters |-> ChaptersOf(lns, s, names), intro |-> SubSeq(lns, 1, s[1])]
        ELSE [chapters |-> <<[text |-> text, name |-> "Chapter 1"]>>, intro |-> <<>>]

(***************************************************************************)
(* Paragraph Segmenter: _detect_paragraphs.                                *)
(***************************************************************************)
\* the heuristic that closes the current paragraph before line i (from 0)
\* a heuristic that breaks before every line that begins with an uppercase letter
StartsNewParagraph_AnyUpper(i, stripped_line, current_paragraph) ==
    /\ stripped_line # ""
    /\ \/ i = 0
       \/ /\ IsUpperChar(Head(stripped_line))
          /\ current_paragraph # <<>>

StartsNewParagraph(i, stripped_line, current_paragraph) ==
    /\ stripped_line # ""
    /\ \/ i = 0
       \/ /\ IsUpperChar(Head(stripped_line))
          /\ current_paragraph # <<>>
          /\ EndsWithAny(current_paragraph[Len(current_paragraph)], {"."})

RECURSIVE ParagraphsFrom(_, _, _, _)
ParagraphsFrom(lns, i, paragraphs, current_paragraph) ==
    IF i >= Len(lns)
    THEN IF current_paragraph # <<>>
         THEN Append(paragraphs, Join(current_paragraph, " ")) ELSE paragraphs
    ELSE LET stripped_line == Strip(lns[i + 1])
             close == StartsNewParagraph(i, stripped_line, current_paragraph)
                      /\ current_paragraph # <<>>
             ps == IF close THEN Append(paragraphs, Join(current_paragraph, " "))
                   ELSE paragraphs
             cp == IF close THEN <<>> ELSE current_paragraph
         IN  ParagraphsFrom(lns, i + 1, ps,
                            IF stripped_line # "" THEN Append(cp, stripped_line) ELSE cp)

\* a segmenter that forgets the paragraph still open at the end
DetectParagraphs_NoLast(lns) ==
    LET ps == ParagraphsFrom(lns, 0, <<>>, <<>>)
    IN  SubSeq(ps, 1, Len(ps) - 1)

DetectParagraphs(lns) == ParagraphsFrom(lns, 0, <<>>, <<>>)

(***************************************************************************)
(* Content Renderer: _add_intro_to_epub and _add_chapters_to_epub.  A      *)
(* content unit (epub.EpubHtml) is a record of its title, file name and    *)
(* content; the spine and the table of contents refer to units by file     *)
(* name, which is unique per unit.                                         *)
(***************************************************************************)
RECURSIVE ParagraphsHtml(_)
\* "<p>...</p>" for each paragraph, in order
ParagraphsHtml(ps) ==
    IF ps = <<>> THEN ""
    ELSE "<p>" \o Head(ps) \o "</p>" \o ParagraphsHtml(Tail(ps))

RECURSIVE NonBlankStripped(_)
\* the non-blank elements of seq, each stripped, in order
NonBlankStripped(seq) ==
    IF seq = <<>> THEN <<>>
    ELSE (IF Strip(Head(seq)) # "" THEN <<Strip(Head(seq))>> ELSE <<>>)
         \o NonBlankStripped(Tail(seq))

\* clean_paragraphs of the introduction
IntroParagraphs(intro_text_lines) ==
    NonBlankStripped(SplitLines(Join(intro_text_lines, "\n")))

\* whether _add_intro_to_epub creates the Introduction unit
HasIntro(intro_text_lines) == intro_text_lines # <<>>

IntroUnit(intro_text_lines) ==
    [title |-> "Introduction", file_name |-> "intro.xhtml",
     content |-> "<h1>Introduction</h1>"
                 \o ParagraphsHtml(IntroParagraphs(intro_text_lines))]

\* the test a paragraph passes to be rendered
ParagraphRendered(chapter_name, para) ==
    ~Contains(chapter_name, para) /\ Strip(para) # ""

RECURSIVE RenderedParagraphs(_, _)
\* the paragraphs that pass the test, in order
RenderedParagraphs(chapter_name, paragraphs) ==
    IF paragraphs = <<>> THEN <<>>
    ELSE (IF ParagraphRendered(chapter_name, Head(paragraphs))
          THEN <<Head(paragraphs)>> ELSE <<>>)
         \o RenderedParagraphs(chapter_name, Tail(paragraphs))

\* the unit of the i-th chapter (i from 1)
ChapterUnit(i, chapter) ==
    LET paragraphs == DetectParagraphs(SplitLines(chapter.text))
    IN  [title |-> chapter.name,
         file_name |-> "chapter_" \o IntToStr(i) \o ".xhtml",
         content |-> "<h1>" \o chapter.name \o "</h1>"
                     \o ParagraphsHtml(RenderedParagraphs(chapter.name, paragraphs))]

\* chapter_items after the loop over the chapters
ChapterUnits(chs) == [i \in 1..Len(chs) |-> ChapterUnit(i, chs[i])]

FileNames(units) == [i \in 1..Len(units) |-> units[i].file_name]

\* the items _build_navigation adds (ebooklib's EpubNcx and EpubNav)
NcxItem == [title |-> "", file_name |-> "toc.ncx", content |-> ""]
NavItem == [title |-> "", file_name |-> "nav.xhtml", content |-> ""]

\* book.spine
SpineOf(intro, chapter_units) == <<"nav">> \o FileNames(intro) \o FileNames(chapter_units)

\* a variant that leaves the introduction out of the table of contents
TocOf_NoIntro(intro, chapter_units) == FileNames(chapter_units)

\* book.toc
TocOf(intro, chapter_units) == FileNames(intro) \o FileNames(chapter_units)

(***************************************************************************)
(* The state machine.  An entry is either convert() on the extracted       *)
(* lines, or _detect_chapters() called on a text of its own.               *)
(***************************************************************************)
Vocab == {"", "Chapter 1", "Chapter 2", "1", "PROLOGUE", " epilogue",
          "<b>CHAPTER ONE</b>", "CHAPTER 1: End.", "End.", "It was dark,",
          "CHAPTER", "ONE", "<b></b>"}

\* the extracted lines of a two-chapter document with a sentence split in two
ScenarioLines == <<"CHAPTER ONE", "Intro", "", "It was a dark night,",
                   "and the wind howled.", "CHAPTER TWO",
                   "The next day dawned bright.">>

\* two consecutive headings, then a front-matter heading directly followed
\* by a chapter heading
StaleRunLines == <<"Chapter 1", "Chapter 2", "PROLOGUE", "Chapter 1">>

\* the line sequences given as input
Inputs == UNION {[1..n -> Vocab] : n \in 0..MaxLines}
              \cup {ScenarioLines, StaleRunLines}

VARIABLES
    call,                       \* the entry called: "convert", "detect",
                                \* "roman" or "paragraphs"
    pc,                         \* the stage about to run
    raw,                        \* the input lines
    mi,                         \* _merge_split_lines: lines consumed
    merged_text,                \* _merge_split_lines: merged_text
    merge_prev_is_chapter,      \* _merge_split_lines: prev_is_chapter
    pdf_text,                   \* _detect_chapters: its argument
    lines,                      \* _detect_chapters: pdf_text.splitlines()
    di,                         \* _detect_chapters: lines consumed (the next i)
    start_indices,
    original_chapter_names,
    prev_is_chapter,
    chapter_number,
    consecutive_chapter_index,
    chapters,                   \* returned chapters: <<[text, name], ...>>
    intro_text_lines,           \* returned introductory lines
    items,                      \* book.items, in order of add_item
    intro_chapter,              \* <<unit>> when self.intro_chapter is set, else <<>>
    chapter_items,
    spine,
    toc,
    epub_file,                  \* the file at epub_path: "absent", "partial", "complete"
    fault,                      \* "none", or the stage of convert() that raised
    result,                     \* "none", then what convert() returned
    number,                     \* the number whose canonical numeral token is,
                                \* 0 for any other token
    token,                      \* _convert_line_if_roman: its argument (line)
    resolved,                   \* _convert_line_if_roman: what it returned
    para_lines,                 \* _detect_paragraphs: its argument (lines)
    paragraphs,                 \* _detect_paragraphs: what it returned
    document,                   \* the PDF at pdf_path: its pages
    failing,                    \* the collaborator operations that raise
    warnings,                   \* the operations whose fault was logged as a
                                \* warning and absorbed
    cover,                      \* the book's cover: "absent" or "set"
    requests                    \* the requests to /convert: where each
                                \* handler is, its files and its response

mergeVars == <<mi, merged_text, merge_prev_is_chapter>>
detectVars == <<start_indices, original_chapter_names, prev_is_chapter,
                chapter_number, consecutive_chapter_index>>
segmentVars == <<chapters, intro_text_lines>>
bookVars == <<items, intro_chapter, chapter_items, spine, toc>>
unitVars == <<number, token, resolved, para_lines, paragraphs>>
extractVars == <<document, failing, warnings, cover>>
vars == <<call, pc, raw, mergeVars, pdf_text, lines, di, detectVars,
          segmentVars, bookVars, epub_file, fault, result, unitVars,
          extractVars, requests>>

\* the locals of convert(), _merge_split_lines and _detect_chapters and the
\* book as the constructor leaves them
Fresh ==
    /\ mi = 0
    /\ merged_text = ""
    /\ merge_prev_is_chapter = FALSE
    /\ di = 0
    /\ start_indices = <<>>
    /\ original_chapter_names = <<>>
    /\ prev_is_chapter = FALSE
    /\ chapter_number = 1
    /\ consecutive_chapter_index = 0
    /\ chapters = <<>>
    /\ intro_text_lines = <<>>
    /\ items = <<>>
    /\ intro_chapter = <<>>
    /\ chapter_items = <<>>
    /\ spine = <<>>
    /\ toc = <<>>
    /\ epub_file = "absent"
    /\ fault = "none"
    /\ result = "none"

\* the value of resolved before _convert_line_if_roman has returned
Unresolved == [isInt |-> FALSE, int |-> 0, str |-> ""]

\* no call of _convert_line_if_roman or _detect_paragraphs on its own
NoUnitCall ==
    /\ number = 0
    /\ token = ""
    /\ resolved = Unresolved
    /\ para_lines = <<>>
    /\ paragraphs = <<>>

\* no request to the endpoint
NoRequest == requests = <<>>

\* the document is not looked into: raw stands for what its extraction yields
NoDocument ==
    /\ document = <<>>
    /\ failing = {}
    /\ warnings = {}
    /\ cover = "absent"

Init ==
    /\ call \in {"convert", "detect"}
    /\ raw \in Inputs
    /\ pc = IF call = "convert" THEN "extract" ELSE "detect"
    /\ pdf_text = IF call = "convert" THEN "" ELSE Join(raw, "\n")
    /\ lines = IF call = "convert" THEN <<>> ELSE SplitLines(Join(raw, "\n"))
    /\ Fresh
    /\ NoRequest
    /\ NoUnitCall
    /\ NoDocument

\* the stages of convert()'s try block
Stages == {"extract", "merge", "detect", "intro", "chapters", "navigation", "write"}

\* _extract_text_from_pdf returns the text whose lines are raw
ExtractText ==
    /\ pc = "extract"
    /\ pc' = "merge"
    /\ UNCHANGED <<call, raw, mergeVars, pdf_text, lines, di, detectVars,
                   segmentVars, bookVars, epub_file, fault, result, unitVars,
                   extractVars, requests>>

\* _merge_split_lines: one iteration of its loop
MergeLine ==
    /\ pc = "merge"
    /\ mi < Len(raw)
    /\ LET st == MergeStep([text |-> merged_text, prev |-> merge_prev_is_chapter],
                           raw[mi + 1])
       IN  /\ merged_text' = st.text
           /\ merge_prev_is_chapter' = st.prev
    /\ mi' = mi + 1
    /\ UNCHANGED <<call, pc, raw, pdf_text, lines, di, detectVars,
                   segmentVars, bookVars, result, epub_file, fault, unitVars,
                   extractVars, requests>>

\* _merge_split_lines returns; convert() calls _detect_chapters(merged_text)
MergeReturn ==
    /\ pc = "merge"
    /\ mi = Len(raw)
    /\ pdf_text' = merged_text
    /\ lines' = SplitLines(merged_text)
    /\ pc' = "detect"
    /\ UNCHANGED <<call, raw, mergeVars, di, detectVars, segmentVars,
                   bookVars, result, epub_file, fault, unitVars,
                   extractVars, requests>>

\* the line the detector's loop is at
CurLine == lines[di + 1]
CurClean == CleanLine(CurLine)
AtLine == pc = "detect" /\ di < Len(lines)

\* a variant in which an empty line ends a run of headings
DetectBlank_ClearsRun ==
    /\ AtLine
    /\ CurClean = ""
    /\ prev_is_chapter' = FALSE
    /\ di' = di + 1
    /\ UNCHANGED <<call, pc, raw, mergeVars, pdf_text, lines, start_indices,
                   original_chapter_names, chapter_number,
                   consecutive_chapter_index, segmentVars, bookVars, result,
                   epub_file, fault, unitVars, extractVars, requests>>

\* an empty clean line: continue
DetectBlank ==
    /\ AtLine
    /\ CurClean = ""
    /\ di' = di + 1
    /\ UNCHANGED <<call, pc, raw, mergeVars, pdf_text, lines, detectVars,
                   segmentVars, bookVars, result, epub_file, fault, unitVars,
                   extractVars, requests>>

\* consecutive_chapter_index as a chapter-pattern line updates it
NextConsecutive == IF prev_is_chapter THEN consecutive_chapter_index + 1 ELSE 0

\* whether a skipped chapter-pattern line discards the last boundary
Discards(consecutive, starts) == consecutive = 1 /\ starts # <<>>

\* a variant whose retraction leaves the title of the boundary behind
DetectSkip_KeepsTitle ==
    /\ AtLine
    /\ CurClean # ""
    /\ ChapterPatternMatch(CurClean)
    /\ IsSkipped(CurClean, chapter_number, prev_is_chapter)
    /\ consecutive_chapter_index' = NextConsecutive
    /\ IF Discards(NextConsecutive, start_indices)
       THEN /\ start_indices' = SubSeq(start_indices, 1, Len(start_indices) - 1)
            /\ original_chapter_names' = original_chapter_names
            /\ chapter_number' = chapter_number - 1
       ELSE UNCHANGED <<start_indices, original_chapter_names, chapter_number>>
    /\ prev_is_chapter' = FALSE
    /\ di' = di + 1
    /\ UNCHANGED <<call, pc, raw, mergeVars, pdf_text, lines, segmentVars,
                   bookVars, result, epub_file, fault, unitVars,
                   extractVars, requests>>

\* a chapter-pattern line that is skipped
DetectSkip ==
    /\ AtLine
    /\ CurClean # ""
    /\ ChapterPatternMatch(CurClean)
    /\ IsSkipped(CurClean, chapter_number, prev_is_chapter)
    /\ consecutive_chapter_index' = NextConsecutive
    /\ IF Discards(NextConsecutive, start_indices)
       THEN /\ start_indices' = SubSeq(start_indices, 1, Len(start_indices) - 1)
            /\ original_chapter_names' =
                   SubSeq(original_chapter_names, 1, Len(original_chapter_names) - 1)
            /\ chapter_number' = chapter_number - 1
       ELSE UNCHANGED <<start_indices, original_chapter_names, chapter_number>>
    /\ prev_is_chapter' = FALSE
    /\ di' = di + 1
    /\ UNCHANGED <<call, pc, raw, mergeVars, pdf_text, lines, segmentVars,
                   bookVars, result, epub_file, fault, unitVars,
                   extractVars, requests>>

\* a chapter-pattern line that is accepted
DetectAccept ==
    /\ AtLine
    /\ CurClean # ""
    /\ ChapterPatternMatch(CurClean)
    /\ ~IsSkipped(CurClean, chapter_number, prev_is_chapter)
    /\ consecutive_chapter_index' = NextConsecutive
    /\ chapter_number' = chapter_number + 1
    /\ prev_is_chapter' = TRUE
    /\ start_indices' = Append(start_indices, di)
    /\ original_chapter_names' =
           Append(original_chapter_names, ChapterName(lines, di, CurClean))
    /\ di' = di + 1
    /\ UNCHANGED <<call, pc, raw, mergeVars, pdf_text, lines, segmentVars,
                   bookVars, result, epub_file, fault, unitVars,
                   extractVars, requests>>

\* a line of the prologue/epilogue pattern
DetectFrontMatter ==
    /\ AtLine
    /\ CurClean # ""
    /\ ~ChapterPatternMatch(CurClean)
    /\ PrologueEpiloguePatternMatch(CurClean)
    /\ IF ~EpilogueFirst(CurClean, start_indices)
       THEN /\ prev_is_chapter' = TRUE
            /\ start_indices' = Append(start_indices, di)
            /\ original_chapter_names' = Append(original_chapter_names, CurLine)
       ELSE UNCHANGED <<prev_is_chapter, start_indices, original_chapter_names>>
    /\ di' = di + 1
    /\ UNCHANGED <<call, pc, raw, mergeVars, pdf_text, lines, chapter_number,
                   consecutive_chapter_index, segmentVars, bookVars, result,
                   epub_file, fault, unitVars, extractVars, requests>>

\* any other line
DetectOther ==
    /\ AtLine
    /\ CurClean # ""
    /\ ~ChapterPatternMatch(CurClean)
    /\ ~PrologueEpiloguePatternMatch(CurClean)
    /\ prev_is_chapter' = FALSE
    /\ di' = di + 1
    /\ UNCHANGED <<call, pc, raw, mergeVars, pdf_text, lines, start_indices,
                   original_chapter_names, chapter_number,
                   consecutive_chapter_index, segmentVars, bookVars, result,
                   epub_file, fault, unitVars, extractVars, requests>>

\* the end of the loop: the chapters are extracted and returned
DetectReturn ==
    /\ pc = "detect"
    /\ di = Len(lines)
    /\ LET r == DetectResult(pdf_text, lines, start_indices, original_chapter_names)
       IN  /\ chapters' = r.chapters
           /\ intro_text_lines' = r.intro
    /\ pc' = IF call = "convert" THEN "intro" ELSE "returned"
    /\ UNCHANGED <<call, raw, mergeVars, pdf_text, lines, di, detectVars,
                   bookVars, result, epub_file, fault, unitVars,
                   extractVars, requests>>

\* _add_intro_to_epub
AddIntroToEpub ==
    /\ pc = "intro"
    /\ IF HasIntro(intro_text_lines)
       THEN /\ items' = Append(items, IntroUnit(intro_text_lines))
            /\ intro_chapter' = <<IntroUnit(intro_text_lines)>>
       ELSE UNCHANGED <<items, intro_chapter>>
    /\ pc' = "chapters"
    /\ UNCHANGED <<call, raw, mergeVars, pdf_text, lines, di, detectVars,
                   segmentVars, chapter_items, spine, toc, result, epub_file,
                   fault, unitVars, extractVars, requests>>

\* _add_chapters_to_epub
AddChaptersToEpub ==
    /\ pc = "chapters"
    /\ chapter_items' = ChapterUnits(chapters)
    /\ items' = items \o ChapterUnits(chapters)
    /\ pc' = "navigation"
    /\ UNCHANGED <<call, raw, mergeVars, pdf_text, lines, di, detectVars,
                   segmentVars, intro_chapter, spine, toc, result, epub_file,
                   fault, unitVars, extractVars, requests>>

\* _build_navigation
BuildNavigation ==
    /\ pc = "navigation"
    /\ items' = items \o <<NcxItem, NavItem>>
    /\ spine' = SpineOf(intro_chapter, chapter_items)
    /\ toc' = TocOf(intro_chapter, chapter_items)
    /\ pc' = "write"
    /\ UNCHANGED <<call, raw, mergeVars, pdf_text, lines, di, detectVars,
                   segmentVars, intro_chapter, chapter_items, result,
                   epub_file, fault, unitVars, extractVars, requests>>

\* epub.write_epub completes, and convert() returns True
WriteEpub ==
    /\ pc = "write"
    /\ epub_file' = "complete"
    /\ result' = "True"
    /\ pc' = "returned"
    /\ UNCHANGED <<call, raw, mergeVars, pdf_text, lines, di, detectVars,
                   segmentVars, bookVars, fault, unitVars,
                   extractVars, requests>>

\* a handler that reports success
ExceptReturn_True == "True"

\* what convert() does with an exception raised in its try block: the except
\* clause logs it and returns False
ExceptReturn == "False"

\* what a stage that raises leaves at epub_path: only epub.write_epub writes
\* there, and it may have written nothing or a part of the file
FileAfterFault(stage) == IF stage = "write" THEN {"absent", "partial"} ELSE {"absent"}

\* the stage that is running raises; convert() catches the exception
StageRaises ==
    /\ call = "convert"
    /\ pc \in Stages
    /\ fault' = pc
    /\ epub_file' \in FileAfterFault(pc)
    /\ result' = ExceptReturn
    /\ pc' = "returned"
    /\ UNCHANGED <<call, raw, mergeVars, pdf_text, lines, di, detectVars,
                   segmentVars, bookVars, unitVars, extractVars, requests>>

Next ==
    \/ ExtractText
    \/ MergeLine
    \/ MergeReturn
    \/ DetectBlank
    \/ DetectSkip
    \/ DetectAccept
    \/ DetectFrontMatter
    \/ DetectOther
    \/ DetectReturn
    \/ AddIntroToEpub
    \/ AddChaptersToEpub
    \/ BuildNavigation
    \/ WriteEpub
    \/ StageRaises

Spec == Init /\ [][Next]_vars

(***************************************************************************)
(* _extract_text_from_pdf looked into: the document's pages, and the       *)
(* operations of the extraction collaborator that raise.                   *)
(***************************************************************************)
\* the longest document
MaxPages == 2

\* a page with formatted text and a picture, a page of plain text, and a
\* page that holds two pictures and no text
Pages ==
    {[formatted |-> <<"<b>PROLOGUE</b>", "It was dark,">>,
      plain |-> <<"PROLOGUE", "It was dark,">>, images |-> 1],
     [formatted |-> <<"Chapter 1", "Chapter 2", "End.">>,
      plain |-> <<"Chapter 1", "Chapter 2", "End.">>, images |-> 0],
     [formatted |-> <<>>, plain |-> <<>>, images |-> 2]}

Documents == UNION {[1..n -> Pages] : n \in 0..MaxPages}

\* fitz.open, pdf_document[n], the calls of _extract_cover_image,
\* page.get_text("dict"), page.get_text("text"), the calls of
\* _extract_images_from_page, and the calls of _compress_image
Operations ==
    {"open", "page", "cover", "formatting", "plain", "images", "compress"}

\* what one page adds to pdf_text: each line followed by a line break
PageText(lns) == IF lns = <<>> THEN "" ELSE Join(lns, "\n") \o "\n"

\* _preserve_formatting: the formatted lines, or the plain text when
\* get_text("dict") raises
PreserveFormatting(page, fl) ==
    PageText(IF "formatting" \in fl THEN page.plain ELSE page.formatted)

RECURSIVE TextOfPages(_, _)
TextOfPages(pages, fl) ==
    IF pages = <<>> THEN ""
    ELSE PreserveFormatting(Head(pages), fl) \o TextOfPages(Tail(pages), fl)

\* a variant in which every fault leaves _extract_text_from_pdf
ExtractRaises_AnyFault(doc, fl) == fl # {}

\* whether _extract_text_from_pdf raises: only fitz.open, the page access
\* and the plain-text fallback are outside the inner try blocks
ExtractRaises(doc, fl) ==
    \/ "open" \in fl
    \/ doc # <<>> /\ ("page" \in fl \/ {"formatting", "plain"} \subseteq fl)

\* whether _extract_cover_image raises inside its try block
CoverRaises(doc, fl) == doc = <<>> \/ "page" \in fl \/ "cover" \in fl

\* the two items _extract_images_from_page adds for image k of page n
ImageItems(n, k, fl) ==
    LET nk == IntToStr(n) \o "_" \o IntToStr(k)
    IN  <<[file_name |-> "page_" \o nk \o ".png",
           content |-> IF "compress" \in fl THEN "original" ELSE "compressed"],
          [title |-> "Image Page " \o IntToStr(n),
           file_name |-> "image_page_" \o nk \o ".xhtml",
           content |-> "<img src=\"page_" \o nk \o ".png\" alt=\"Page "
                       \o IntToStr(n) \o " Image\"/>"]>>

RECURSIVE ImagesOfPage(_, _, _, _)
\* the items of images k.. of page n, which holds count images
ImagesOfPage(n, k, count, fl) ==
    IF k > count THEN <<>>
    ELSE ImageItems(n, k, fl) \o ImagesOfPage(n, k + 1, count, fl)

\* page n has no text, so that its images are extracted
IsImagePage(doc, n, fl) == Strip(PreserveFormatting(doc[n], fl)) = ""

RECURSIVE ImagesFrom(_, _, _)
\* the items added for the pages n.. of the document
ImagesFrom(doc, n, fl) ==
    IF n > Len(doc) THEN <<>>
    ELSE (IF IsImagePage(doc, n, fl) /\ "images" \notin fl
          THEN ImagesOfPage(n, 1, doc[n].images, fl) ELSE <<>>)
         \o ImagesFrom(doc, n + 1, fl)

\* the faults logged as warnings by a run of _extract_text_from_pdf
WarningsOf(doc, fl) ==
    LET image_pages == {n \in 1..Len(doc) : IsImagePage(doc, n, fl)}
    IN  IF "open" \in fl THEN {}
        ELSE (IF CoverRaises(doc, fl) THEN {"cover"} ELSE {})
             \cup (IF doc # <<>> /\ "page" \notin fl /\ "formatting" \in fl
                   THEN {"formatting"} ELSE {})
             \cup (IF ~ExtractRaises(doc, fl) /\ image_pages # {}
                      /\ "images" \in fl
                   THEN {"images"} ELSE {})
             \cup (IF ~ExtractRaises(doc, fl) /\ "images" \notin fl
                      /\ "compress" \in fl
                      /\ \E n \in image_pages : doc[n].images > 0
                   THEN {"compress"} ELSE {})

\* what a run of _extract_text_from_pdf comes to
ExtractOutcome(doc, fl) ==
    [raised |-> ExtractRaises(doc, fl),
     text |-> IF ExtractRaises(doc, fl) THEN "" ELSE TextOfPages(doc, fl),
     cover |-> IF "open" \notin fl /\ ~CoverRaises(doc, fl) /\ doc[1].images > 0
               THEN "set" ELSE "absent",
     items |-> IF ExtractRaises(doc, fl) THEN <<>> ELSE ImagesFrom(doc, 1, fl),
     warnings |-> WarningsOf(doc, fl)]

InitExtract ==
    /\ call = "convert"
    /\ pc = "open"
    /\ raw = <<>>
    /\ pdf_text = ""
    /\ lines = <<>>
    /\ Fresh
    /\ NoRequest
    /\ NoUnitCall
    /\ document \in Documents
    /\ failing \in SUBSET Operations
    /\ warnings = {}
    /\ cover = "absent"

\* convert() calls _extract_text_from_pdf: the text goes on to
\* _merge_split_lines, or the exception is caught and False is returned
ExtractTextFromPdf ==
    /\ pc = "open"
    /\ LET out == ExtractOutcome(document, failing)
       IN  /\ warnings' = out.warnings
           /\ cover' = out.cover
           /\ items' = out.items
           /\ IF out.raised
              THEN /\ fault' = "extract"
                   /\ result' = ExceptReturn
                   /\ pc' = "returned"
                   /\ raw' = raw
              ELSE /\ raw' = SplitLines(out.text)
                   /\ pc' = "merge"
                   /\ UNCHANGED <<fault, result>>
    /\ UNCHANGED <<call, mergeVars, pdf_text, lines, di, detectVars,
                   segmentVars, intro_chapter, chapter_items, spine, toc,
                   epub_file, unitVars, document, failing, requests>>

NextExtract ==
    \/ ExtractTextFromPdf
    \/ MergeLine
    \/ MergeReturn
    \/ DetectBlank
    \/ DetectSkip
    \/ DetectAccept
    \/ DetectFrontMatter
    \/ DetectOther
    \/ DetectReturn
    \/ AddIntroToEpub
    \/ AddChaptersToEpub
    \/ BuildNavigation
    \/ WriteEpub
    \/ StageRaises

SpecExtract == InitExtract /\ [][NextExtract]_vars

(***************************************************************************)
(* app.py: the /convert endpoint.  Every request has its own file_id and   *)
(* with it its own two files in TEMP_DIR.                                  *)
(***************************************************************************)
\* the requests handled side by side
MaxRequests == 2

Requests == 1..MaxRequests

\* a request before its handler runs: no file of its own exists
NewRequest ==
    [at |-> "save", pdf |-> "absent", epub |-> "absent", success |-> "none",
     response |-> "none"]

InitEndpoint ==
    /\ call = "endpoint"
    /\ pc = "endpoint"
    /\ raw = <<>>
    /\ pdf_text = ""
    /\ lines = <<>>
    /\ Fresh
    /\ NoUnitCall
    /\ NoDocument
    /\ requests = [r \in Requests |-> NewRequest]

\* everything but the requests
restVars == <<call, pc, raw, mergeVars, pdf_text, lines, di, detectVars,
              segmentVars, bookVars, epub_file, fault, result, unitVars,
              extractVars>>

\* the upload is written to pdf_path; open() or file.read() may raise, the
\* second with the file already created
SavePdf(r) ==
    /\ call = "endpoint"
    /\ requests[r].at = "save"
    /\ \/ requests' = [requests EXCEPT ![r].pdf = "present", ![r].at = "convert"]
       \/ \E left \in {"absent", "present"} :
              requests' = [requests EXCEPT ![r].pdf = left,
                                           ![r].response = "error",
                                           ![r].at = "finally"]
    /\ UNCHANGED restVars

\* convert_pdf_to_epub returns True with the file written, returns False
\* with nothing or a part of it written, or an exception leaves the try block
ConvertPdf(r) ==
    /\ call = "endpoint"
    /\ requests[r].at = "convert"
    /\ \/ requests' = [requests EXCEPT ![r].success = "True",
                                       ![r].epub = "complete",
                                       ![r].at = "respond"]
       \/ \E left \in FileAfterFault("write") :
              requests' = [requests EXCEPT ![r].success = ExceptReturn,
                                           ![r].epub = left,
                                           ![r].at = "respond"]
       \/ requests' = [requests EXCEPT ![r].response = "error",
                                       ![r].at = "finally"]
    /\ UNCHANGED restVars

\* the handler's return statement: the error message or the FileResponse
Respond(r) ==
    /\ call = "endpoint"
    /\ requests[r].at = "respond"
    /\ requests' = [requests EXCEPT
                       ![r].response = IF requests[r].success = "True"
                                       THEN "file" ELSE "error",
                       ![r].at = "finally"]
    /\ UNCHANGED restVars

\* the finally clause: the PDF is removed if it exists; nothing is done
\* about the EPUB
Finally(r) ==
    /\ call = "endpoint"
    /\ requests[r].at = "finally"
    /\ requests' = [requests EXCEPT ![r].pdf = "absent", ![r].at = "send"]
    /\ UNCHANGED restVars

\* the framework sends the response the handler returned; a FileResponse
\* reads the file at epub_path and leaves it where it is
SendResponse(r) ==
    /\ call = "endpoint"
    /\ requests[r].at = "send"
    /\ requests' = [requests EXCEPT ![r].at = "done"]
    /\ UNCHANGED restVars

NextEndpoint ==
    \E r \in Requests :
        \/ SavePdf(r)
        \/ ConvertPdf(r)
        \/ Respond(r)
        \/ Finally(r)
        \/ SendResponse(r)

\* every request that has begun is carried through by the server
SpecEndpoint ==
    /\ InitEndpoint
    /\ [][NextEndpoint]_vars
    /\ \A r \in Requests :
           WF_vars(SavePdf(r) \/ ConvertPdf(r) \/ Respond(r) \/ Finally(r)
                   \/ SendResponse(r))

(***************************************************************************)
(* The Numeral Normalizer called on a token of its own.                    *)
(***************************************************************************)
TokenAlphabet == {"I", "V", "X", "L", "C", "D", "M", "i", "v", "x", "m",
                  "A", "1", ".", " "}

\* the strings over TokenAlphabet of length n
TokensOfLen(n) ==
    {Join(f, "") : f \in [1..n -> TokenAlphabet]}

RomanDigits ==
    <<<<"", "I", "II", "III", "IV", "V", "VI", "VII", "VIII", "IX">>,
      <<"", "X", "XX", "XXX", "XL", "L", "LX", "LXX", "LXXX", "XC">>,
      <<"", "C", "CC", "CCC", "CD", "D", "DC", "DCC", "DCCC", "CM">>>>

RomanDigitsLower ==
    <<<<"", "i", "ii", "iii", "iv", "v", "vi", "vii", "viii", "ix">>,
      <<"", "x", "xx", "xxx", "xl", "l", "lx", "lxx", "lxxx", "xc">>,
      <<"", "c", "cc", "ccc", "cd", "d", "dc", "dcc", "dccc", "cm">>>>

RECURSIVE Repeat(_, _)
Repeat(c, n) == IF n = 0 THEN "" ELSE c \o Repeat(c, n - 1)

\* the canonical Roman numeral of n, in upper case
Canonical(n) ==
    Repeat("M", n \div 1000) \o RomanDigits[3][((n \div 100) % 10) + 1]
        \o RomanDigits[2][((n \div 10) % 10) + 1] \o RomanDigits[1][(n % 10) + 1]

\* the canonical Roman numeral of n, in lower case
CanonicalLower(n) ==
    Repeat("m", n \div 1000) \o RomanDigitsLower[3][((n \div 100) % 10) + 1]
        \o RomanDigitsLower[2][((n \div 10) % 10) + 1]
        \o RomanDigitsLower[1][(n % 10) + 1]

\* non-canonical numerals and tokens of other characters
TokenExamples == {"IIII", "iiii", "VX", "IM", "IIX", "XXXX", "MCMXCIV", "mcmxciv",
                  "Chapter IV", "CHAPTER ONE", "IV.", "1234", "MIXED", "<b>IV</b>"}

\* the tokens given: trimmed, as every line the detector resolves is
Tokens ==
    {t \in UNION {TokensOfLen(n) : n \in 0..MaxToken} : Strip(t) = t}
    \cup TokenExamples

InitNumeral ==
    /\ call = "roman"
    /\ pc = "roman"
    /\ raw = <<>>
    /\ pdf_text = ""
    /\ lines = <<>>
    /\ Fresh
    /\ NoRequest
    /\ \/ number = 0 /\ token \in Tokens
       \/ number \in 1..MaxNumber
          /\ token \in {Canonical(number), CanonicalLower(number)}
    /\ resolved = Unresolved
    /\ para_lines = <<>>
    /\ paragraphs = <<>>
    /\ NoDocument

\* _convert_line_if_roman(token)
ConvertLineIfRomanCall ==
    /\ pc = "roman"
    /\ resolved' = ConvertLineIfRoman(token)
    /\ pc' = "returned"
    /\ UNCHANGED <<call, raw, mergeVars, pdf_text, lines, di, detectVars,
                   segmentVars, bookVars, epub_file, fault, result, number,
                   token, para_lines, paragraphs, extractVars, requests>>

NextNumeral == ConvertLineIfRomanCall

SpecNumeral == InitNumeral /\ [][NextNumeral]_vars

(***************************************************************************)
(* The Paragraph Segmenter called on a list of lines of its own.           *)
(***************************************************************************)
ParagraphVocab == {"", "  ", "End.", " It was dark, ", "and cold.", "Then",
                   "3 a.m."}

ParagraphInputs == UNION {[1..n -> ParagraphVocab] : n \in 0..MaxLines}

InitParagraphs ==
    /\ call = "paragraphs"
    /\ pc = "paragraphs"
    /\ raw = <<>>
    /\ pdf_text = ""
    /\ lines = <<>>
    /\ Fresh
    /\ NoRequest
    /\ number = 0
    /\ token = ""
    /\ resolved = Unresolved
    /\ para_lines \in ParagraphInputs
    /\ paragraphs = <<>>
    /\ NoDocument

\* _detect_paragraphs(para_lines)
DetectParagraphsCall ==
    /\ pc = "paragraphs"
    /\ paragraphs' = DetectParagraphs(para_lines)
    /\ pc' = "returned"
    /\ UNCHANGED <<call, raw, mergeVars, pdf_text, lines, di, detectVars,
                   segmentVars, bookVars, epub_file, fault, result, number,
                   token, resolved, para_lines, extractVars, requests>>

NextParagraphs == DetectParagraphsCall

SpecParagraphs == InitParagraphs /\ [][NextParagraphs]_vars

(***************************************************************************)
(* Stages reached, and the vocabulary of the properties.                   *)
(***************************************************************************)
\* the detector's loop has consumed every line and is about to return
LoopDone == pc = "detect" /\ di = Len(lines)

\* _detect_chapters has just returned (to convert, or to its direct caller)
Detected == pc = "intro" \/ (call = "detect" /\ pc = "returned")

\* _merge_split_lines has just returned
Merged == call = "convert" /\ pc = "detect" /\ di = 0

\* _add_intro_to_epub has run
IntroAdded ==
    /\ call = "convert"
    /\ \/ pc \in {"chapters", "navigation", "write"}
       \/ pc = "returned" /\ fault \in {"none", "chapters", "navigation", "write"}

\* _add_chapters_to_epub has run
ChaptersAdded ==
    /\ call = "convert"
    /\ \/ pc \in {"navigation", "write"}
       \/ pc = "returned" /\ fault \in {"none", "navigation", "write"}

\* _build_navigation has just run
NavigationBuilt == call = "convert" /\ pc = "write"

\* a line whose markup-stripped text matches the chapter or front-matter pattern
HeadingClassified(line) ==
    \/ ChapterPatternMatch(StripTags(Strip(line)))
    \/ PrologueEpiloguePatternMatch(StripTags(Strip(line)))

IsChapterPatternLine(line) == ChapterPatternMatch(StripTags(Strip(line)))

RECURSIVE ConcatLines(_)
\* the lines of the chapters' bodies, one chapter after the other
ConcatLines(chs) ==
    IF chs = <<>> THEN <<>> ELSE SplitLines(Head(chs).text) \o ConcatLines(Tail(chs))

Range(seq) == {seq[k] : k \in 1..Len(seq)}

RECURSIVE IsSubsequence(_, _)
\* a is b with some elements left out
IsSubsequence(a, b) ==
    IF a = <<>> THEN TRUE
    ELSE IF b = <<>> THEN FALSE
    ELSE IF Head(a) = Head(b) THEN IsSubsequence(Tail(a), Tail(b))
    ELSE IsSubsequence(a, Tail(b))

\* the stripped non-blank heading-classified lines of a sequence, in order
HeadingLinesOf(lns) ==
    NonBlankStripped(SelectSeq(lns, HeadingClassified))

\* indices (from 0) of the chapter-pattern lines of the detector's text
ChapterLineIdx == {i \in 0..(Len(lines) - 1) : IsChapterPatternLine(lines[i + 1])}

\* the chapter-pattern lines are "Chapter 1", ..., "Chapter N" in order, N >= 1
AscendingChapters ==
    /\ ChapterLineIdx # {}
    /\ \A i \in ChapterLineIdx :
           CleanLine(lines[i + 1])
               = "Chapter " \o IntToStr(Cardinality({j \in ChapterLineIdx : j <= i}))

\* the line before line i (from 0) that the detector does not pass over as
\* empty exists and is heading-classified
HeadingJustBefore(i) ==
    LET before == {j \in 0..(i - 1) : CleanLine(lines[j + 1]) # ""}
    IN  before # {} /\
        HeadingClassified(lines[(CHOOSE j \in before : \A m \in before : m <= j) + 1])

\* all chapter-pattern lines are registered and the expected number is N + 1
AllChaptersAccepted ==
    /\ ChapterLineIdx \subseteq Range(start_indices)
    /\ chapter_number = Cardinality(ChapterLineIdx) + 1

(***************************************************************************)
(* C1  Coverage.  As claimed: the front-matter lines followed by the lines *)
(* of all returned segments, in order, are exactly the lines of the        *)
(* reflowed text.                                                          *)
(***************************************************************************)
C1_CoverageExact ==
    Detected => intro_text_lines \o ConcatLines(chapters) = lines

\* C1 as amended: the front matter followed by the segments holds every
\* non-blank line of the reflowed text exactly once and in order (each segment
\* body is returned stripped, so blank lines and whitespace at the two ends of a
\* segment's span are not kept), one segment per registered boundary.
C1_CoverageNonBlank ==
    Detected =>
        /\ NonBlankStripped(intro_text_lines \o ConcatLines(chapters))
               = NonBlankStripped(lines)
        /\ Len(chapters) = Len(start_indices)

\* a text with front matter and a segment, after a boundary was retracted
C1_Witness ==
    /\ Detected
    /\ consecutive_chapter_index = 1
    /\ Len(chapters) >= 1
    /\ \E k \in 1..Len(intro_text_lines) : HeadingClassified(intro_text_lines[k])

(***************************************************************************)
(* C2  No-chapter fallback: when no line was registered as a boundary, the *)
(* detector returns the single segment ("Chapter 1", whole input) and no   *)
(* front matter.                                                           *)
(***************************************************************************)
C2_NoChapterFallback ==
    (Detected /\ start_indices = <<>>) =>
        /\ chapters = <<[text |-> pdf_text, name |-> "Chapter 1"]>>
        /\ intro_text_lines = <<>>

(***************************************************************************)
(* C3  A run that reaches packaging has registered at least one content    *)
(* unit, an Introduction unit or a chapter unit.                           *)
(***************************************************************************)
C3_AtLeastOneUnit ==
    (call = "convert" /\ pc = "write") =>
        Len(intro_chapter) + Len(chapter_items) >= 1

(***************************************************************************)
(* C4  Ascending sequence.  As claimed: when the chapter-pattern lines of  *)
(* the text are "Chapter 1", ..., "Chapter N" in order, all N are accepted *)
(* and the expected chapter number ends at N + 1.                          *)
(***************************************************************************)
C4_AscendingAccepted ==
    (LoopDone /\ AscendingChapters) => AllChaptersAccepted

\* C4 as amended: the same, for texts in which no chapter-pattern line has a
\* heading-classified line as the last line before it that is not blank once
\* its markup is stripped.
C4_AscendingSeparatedAccepted ==
    (LoopDone /\ AscendingChapters /\ \A i \in ChapterLineIdx : ~HeadingJustBefore(i))
        => AllChaptersAccepted

\* "Chapter 1", body, "Chapter 2", both accepted
C4_Witness ==
    /\ LoopDone
    /\ AscendingChapters
    /\ \A i \in ChapterLineIdx : ~HeadingJustBefore(i)
    /\ Cardinality(ChapterLineIdx) = 2
    /\ chapter_number = 3

\* the current line repeats the most recently registered chapter heading
RepeatsAcceptedHeading ==
    LET acc == {i \in Range(start_indices) : IsChapterPatternLine(lines[i + 1])}
    IN  /\ AtLine
        /\ ChapterPatternMatch(CurClean)
        /\ acc # {}
        /\ CleanLine(lines[(CHOOSE i \in acc : \A m \in acc : m <= i) + 1]) = CurClean

(***************************************************************************)
(* C5  Repeat: a chapter heading that repeats the heading accepted before  *)
(* it is rejected: the step that processes it does not register it and     *)
(* does not increment the expected chapter number.                         *)
(***************************************************************************)
C5_RepeatRejected ==
    [][RepeatsAcceptedHeading =>
          /\ start_indices' # Append(start_indices, di)
          /\ chapter_number' <= chapter_number]_vars

(***************************************************************************)
(* C6  Heading isolation: the heading-classified input lines consumed so   *)
(* far are, in order and each as a whole logical line with its markup,     *)
(* among the logical lines of the merged text.                             *)
(***************************************************************************)
C6_HeadingIsolated ==
    (call = "convert" /\ pc = "merge") =>
        IsSubsequence(HeadingLinesOf(SubSeq(raw, 1, mi)), SplitLines(merged_text))

\* a heading with markup between a line that ends mid-sentence and a body line
C6_Witness ==
    /\ Merged
    /\ Len(raw) = 3
    /\ raw[1] = "It was dark,"
    /\ raw[2] = "<b>CHAPTER ONE</b>"
    /\ raw[3] = "ONE"

(***************************************************************************)
(* C7  Idempotence.  As claimed: merging the lines of a Line Merger output *)
(* yields that same output.                                                *)
(***************************************************************************)
C7_MergeIdempotent ==
    Merged => MergeSplitLines(SplitLines(merged_text)) = merged_text

\* no logical line of the output is heading-classified except the input's
\* heading lines (joining input lines has produced no heading-like line)
NoJoinedHeading ==
    Len(HeadingLinesOf(SplitLines(merged_text))) = Len(HeadingLinesOf(raw))

\* a line whose markup is balanced on the line and leaves at least one word
WellMarked(line) ==
    Strip(line) = "" \/
        /\ Split(StripTags(Strip(line))) # <<>>
        /\ ~Contains(StripTags(Strip(line)), "<")

\* C7 as amended: merging the lines of a Line Merger output yields that same
\* output, for input lines whose markup is balanced and leaves at least one
\* word, when joining has produced no heading-classified logical line.
C7_MergeIdempotentNoJoinedHeading ==
    (Merged /\ NoJoinedHeading /\ \A k \in 1..Len(raw) : WellMarked(raw[k]))
        => MergeSplitLines(SplitLines(merged_text)) = merged_text

\* an output with a joined sentence, a heading and a subtitle line
C7_Witness ==
    /\ Merged
    /\ NoJoinedHeading
    /\ \A k \in 1..Len(raw) : WellMarked(raw[k])
    /\ Len(HeadingLinesOf(raw)) >= 1
    /\ \E k \in 1..Len(SplitLines(merged_text)) :
           SplitLines(merged_text)[k] = "It was dark, ONE"

(***************************************************************************)
(* C8  Introduction unit: one unit titled "Introduction", with a heading   *)
(* and one paragraph per non-blank front-matter line, exactly when the     *)
(* front matter has a non-blank line; none when the document starts with   *)
(* an accepted heading.                                                    *)
(***************************************************************************)
C8_IntroIffFrontMatter ==
    IntroAdded =>
        IF NonBlankStripped(intro_text_lines) # <<>>
        THEN /\ Len(intro_chapter) = 1
             /\ intro_chapter[1].title = "Introduction"
             /\ intro_chapter[1].content
                    = "<h1>Introduction</h1>"
                      \o ParagraphsHtml(NonBlankStripped(intro_text_lines))
        ELSE intro_chapter = <<>>

\* the content units registered with the book, in registration order
RegisteredUnits == SelectSeq(items, LAMBDA u : u \notin {NcxItem, NavItem})

(***************************************************************************)
(* C9  Reading order: the spine is the navigation placeholder, then the    *)
(* registered units (the Introduction if registered, then one unit per     *)
(* segment in detection order); the table of contents is the spine without *)
(* the placeholder.                                                        *)
(***************************************************************************)
C9_ReadingOrder ==
    NavigationBuilt =>
        LET units == RegisteredUnits
            extra == Len(units) - Len(chapters)
        IN  /\ spine = <<"nav">> \o FileNames(units)
            /\ toc = Tail(spine)
            /\ extra \in {0, 1}
            /\ extra = 1 => units[1].title = "Introduction"
            /\ \A k \in 1..Len(chapters) :
                   /\ units[extra + k].title = chapters[k].name
                   /\ units[extra + k].file_name = "chapter_" \o IntToStr(k) \o ".xhtml"

\* an Introduction and two chapters
C9_Witness ==
    /\ NavigationBuilt
    /\ Len(chapters) = 2
    /\ Len(spine) = 4

RECURSIVE WithoutTitle(_, _)
WithoutTitle(title, paras) ==
    IF paras = <<>> THEN <<>>
    ELSE (IF Head(paras) # title /\ Strip(Head(paras)) # ""
          THEN <<Head(paras)>> ELSE <<>>)
         \o WithoutTitle(title, Tail(paras))

(***************************************************************************)
(* C10  Paragraph filter: the paragraphs rendered for a segment are the    *)
(* segmenter's paragraphs without the empty ones and without those whose   *)
(* text equals the segment's title.                                        *)
(***************************************************************************)
C10_ParagraphFilter ==
    ChaptersAdded =>
        \A k \in 1..Len(chapters) :
            chapter_items[k].content
                = "<h1>" \o chapters[k].name \o "</h1>"
                  \o ParagraphsHtml(WithoutTitle(chapters[k].name,
                         DetectParagraphs(SplitLines(chapters[k].text))))

\* the text of a segment after its heading line
SegmentBody(ch) == Strip(Join(Tail(SplitLines(ch.text)), "\n"))

(***************************************************************************)
(* C11  End-to-end scenario: merging and detecting the scenario lines      *)
(* yields an empty front matter and two segments in order, the first       *)
(* titled "CHAPTER ONE Intro" with the merged sentence on one logical line *)
(* of its body, the second titled "CHAPTER TWO" with the body "The next    *)
(* day dawned bright.".                                                    *)
(***************************************************************************)
C11_Scenario ==
    (call = "convert" /\ raw = ScenarioLines /\ Detected) =>
        /\ intro_text_lines = <<>>
        /\ Len(chapters) = 2
        /\ chapters[1].name = "CHAPTER ONE Intro"
        /\ "It was a dark night, and the wind howled."
               \in Range(SplitLines(chapters[1].text))
        /\ chapters[2].name = "CHAPTER TWO"
        /\ SegmentBody(chapters[2]) = "The next day dawned bright."

\* convert() has returned to its caller
ConvertReturned == call = "convert" /\ pc = "returned"

(***************************************************************************)
(* C12  Run result: convert() hands its caller a boolean and no exception; *)
(* the boolean is True exactly when no stage raised, and then every stage  *)
(* and the packaging write have completed; it is False whenever a stage    *)
(* raised, so a partly written output file is never reported as a success. *)
(***************************************************************************)
C12_RunResult ==
    ConvertReturned =>
        /\ result \in {"True", "False"}
        /\ result = "True" <=> fault = "none"
        /\ result = "True" =>
               /\ mi = Len(raw)
               /\ di = Len(lines)
               /\ Len(chapter_items) = Len(chapters)
               /\ spine # <<>>
               /\ epub_file = "complete"
        /\ epub_file = "partial" => result = "False"

\* the packaging write raised after writing a part of the file
C12_Witness ==
    /\ ConvertReturned
    /\ fault = "write"
    /\ epub_file = "partial"
    /\ result = "False"

\* _convert_line_if_roman has returned
Resolved == call = "roman" /\ pc = "returned"

RomanSymbols == {"I", "V", "X", "L", "C", "D", "M", "i", "v", "x", "l", "c", "d", "m"}

\* the value of a Roman symbol of either letter case
SymbolValue(c) ==
    CASE c \in {"I", "i"} -> 1 [] c \in {"V", "v"} -> 5 [] c \in {"X", "x"} -> 10
      [] c \in {"L", "l"} -> 50 [] c \in {"C", "c"} -> 100
      [] c \in {"D", "d"} -> 500 [] c \in {"M", "m"} -> 1000

\* the signed value of the symbol at i: subtracted when the symbol to its
\* right is strictly larger, else added
SignedValue(t, i) ==
    IF i < Len(t) /\ SymbolValue(Char(t, i)) < SymbolValue(Char(t, i + 1))
    THEN 0 - SymbolValue(Char(t, i))
    ELSE SymbolValue(Char(t, i))

RECURSIVE SumSigned(_, _)
SumSigned(t, i) == IF i = 0 THEN 0 ELSE SumSigned(t, i - 1) + SignedValue(t, i)

Segmented == call = "paragraphs" /\ pc = "returned"

RECURSIVE IsGrouping(_, _)
\* ps are the single-space joins of consecutive non-empty groups that make up lns
IsGrouping(ps, lns) ==
    IF ps = <<>> THEN lns = <<>>
    ELSE \E k \in 1..Len(lns) :
             /\ Head(ps) = Join(SubSeq(lns, 1, k), " ")
             /\ IsGrouping(Tail(ps), SubSeq(lns, k + 1, Len(lns)))

(***************************************************************************)
(* C14  Partition: the paragraphs are the single-space joins of            *)
(* consecutive groups that partition the trimmed non-blank input lines in  *)
(* their order; no paragraph is empty.                                     *)
(***************************************************************************)
C14_ParagraphPartition ==
    Segmented =>
        /\ IsGrouping(paragraphs, NonBlankStripped(para_lines))
        /\ \A k \in 1..Len(paragraphs) : paragraphs[k] # ""

\* two padded lines around a blank one, joined in one paragraph
C14_Witness ==
    /\ Segmented
    /\ para_lines = <<" It was dark, ", "  ", "and cold.">>
    /\ paragraphs = <<"It was dark, and cold.">>

\* the k-th non-blank line is the first, or begins with an uppercase letter
\* after a line that ends with a period
BreaksBefore(nb, k) ==
    \/ k = 1
    \/ /\ IsUpperChar(Head(nb[k]))
       /\ EndsWithAny(nb[k - 1], {"."})

(***************************************************************************)
(* C20  Paragraph break rule: a non-blank line starts a paragraph exactly  *)
(* when it is the first one, or it begins with an uppercase letter and the *)
(* paragraph accumulated so far ends with a period; every other non-blank  *)
(* line is appended to the current paragraph.                              *)
(***************************************************************************)
C20_ParagraphBreak ==
    Segmented =>
        LET nb == NonBlankStripped(para_lines)
            breaks == {k \in 1..Len(nb) : BreaksBefore(nb, k)}
            until(b) == IF \E c \in breaks : c > b
                        THEN (CHOOSE c \in breaks :
                                  c > b /\ \A e \in breaks : e > b => c <= e) - 1
                        ELSE Len(nb)
        IN  /\ Len(paragraphs) = Cardinality(breaks)
            /\ \A b \in breaks :
                   paragraphs[Cardinality({c \in breaks : c <= b})]
                       = Join(SubSeq(nb, b, until(b)), " ")

\* no break before a lowercase line after a period, a break before the
\* uppercase line after it
C20_Witness ==
    /\ Segmented
    /\ para_lines = <<"End.", "and cold.", "Then">>
    /\ paragraphs = <<"End. and cold.", "Then">>


(***************************************************************************)
(* C15  Consecutive-heading rejection.  As claimed: the step that          *)
(* processes a chapter-pattern line whose preceding non-blank line is      *)
(* heading-classified does not register the line, whatever its place in    *)
(* the run of consecutive headings.                                        *)
(***************************************************************************)
C15_ConsecutiveRejected ==
    [][(AtLine /\ ChapterPatternMatch(CurClean) /\ HeadingJustBefore(di))
          => start_indices' # Append(start_indices, di)]_vars


\* the non-blank line just before the current one is the most recently
\* registered segment start
FollowsRegisteredHeading ==
    LET before == {j \in 0..(di - 1) : CleanLine(lines[j + 1]) # ""}
    IN  /\ before # {}
        /\ start_indices # <<>>
        /\ start_indices[Len(start_indices)] =
               CHOOSE j \in before : \A m \in before : m <= j

\* the step processes a chapter-pattern line and does not register it
SpuriousStep ==
    /\ AtLine
    /\ ChapterPatternMatch(CurClean)
    /\ di' = di + 1
    /\ start_indices' # Append(start_indices, di)

(***************************************************************************)
(* C16  Boundary retraction.  As claimed: a spurious chapter-pattern line  *)
(* that directly follows a registered heading (the first spurious line of  *)
(* its run) removes the last boundary together with its title and lowers   *)
(* the expected chapter number by one; any other spurious line leaves the  *)
(* boundaries, the titles and the expected chapter number unchanged.       *)
(***************************************************************************)
C16_Retraction ==
    [][SpuriousStep =>
          IF FollowsRegisteredHeading
          THEN /\ start_indices' =
                      SubSeq(start_indices, 1, Len(start_indices) - 1)
               /\ original_chapter_names' =
                      SubSeq(original_chapter_names, 1,
                             Len(original_chapter_names) - 1)
               /\ chapter_number' = chapter_number - 1
          ELSE UNCHANGED <<start_indices, original_chapter_names,
                           chapter_number>>]_vars


(***************************************************************************)
(* C17  Front-matter keyword acceptance: the step that processes a line    *)
(* matching the front-matter pattern registers it as a segment start,      *)
(* except an EPILOGUE (in any case) met while no boundary is registered,   *)
(* which is left unregistered.                                             *)
(***************************************************************************)
C17_FrontMatterRegistered ==
    [][(AtLine /\ PrologueEpiloguePatternMatch(CurClean) /\ di' = di + 1) =>
          IF Upper(CurClean) = "EPILOGUE" /\ start_indices = <<>>
          THEN UNCHANGED start_indices
          ELSE start_indices' = Append(start_indices, di)]_vars

\* an EPILOGUE passed over as the first line and one registered after a
\* registered PROLOGUE
C17_Witness ==
    /\ pc = "detect"
    /\ di = 3
    /\ Upper(CleanLine(lines[1])) = "EPILOGUE"
    /\ Upper(CleanLine(lines[3])) = "EPILOGUE"
    /\ start_indices = <<1, 2>>


\* the step registers the current chapter-pattern line
AcceptStep ==
    /\ AtLine
    /\ ChapterPatternMatch(CurClean)
    /\ start_indices' = Append(start_indices, di)

\* the stripped line at 0-based index j, empty past the end
StrippedAt(j) == IF j < Len(lines) THEN Strip(lines[j + 1]) ELSE ""

\* at most two words once the markup is stripped
IsShort(stripped_line) == Len(Split(StripTags(stripped_line))) <= 2

\* the first two non-blank lines after the current one
TwoNonBlankAfter ==
    LET after == {j \in (di + 1)..(Len(lines) - 1) : StrippedAt(j) # ""}
    IN  {j \in after : Cardinality({m \in after : m < j}) < 2}

(***************************************************************************)
(* C18  Subtitle attachment.  As claimed: the title of an accepted heading *)
(* is the heading followed by the short line found among the next two      *)
(* non-blank lines, and the heading alone when neither is short.           *)
(***************************************************************************)
C18_SubtitleAmongTwo ==
    [][AcceptStep =>
          LET short == {j \in TwoNonBlankAfter : IsShort(StrippedAt(j))}
              title == original_chapter_names'[Len(original_chapter_names')]
          IN  IF short = {} THEN title = CurClean
              ELSE title = CurClean \o " " \o
                       StrippedAt(CHOOSE j \in short : \A m \in short : j <= m)]_vars

(***************************************************************************)
(* C18 (amended)  Subtitle attachment: the title of an accepted heading is *)
(* decided by one line, the first non-blank line among the two lines that  *)
(* follow the heading: if that line has at most two words once its markup  *)
(* is stripped, it is appended to the heading after one space; if it is    *)
(* longer, or both lines are blank or missing, the title is the heading's  *)
(* stripped text alone.                                                    *)
(***************************************************************************)
C18_SubtitleFirstNonBlank ==
    [][AcceptStep =>
          LET cand == IF StrippedAt(di + 1) # "" THEN StrippedAt(di + 1)
                      ELSE StrippedAt(di + 2)
              title == original_chapter_names'[Len(original_chapter_names')]
          IN  title = IF cand # "" /\ IsShort(cand)
                      THEN CurClean \o " " \o cand ELSE CurClean]_vars

\* a heading accepted with a long line and then a short line after it, and
\* titled by its own text alone
C18_Witness ==
    /\ pc = "detect"
    /\ di = 1
    /\ Len(lines) = 3
    /\ start_indices = <<0>>
    /\ StrippedAt(1) # "" /\ ~IsShort(StrippedAt(1))
    /\ StrippedAt(2) # "" /\ IsShort(StrippedAt(2))
    /\ original_chapter_names = <<CleanLine(lines[1])>>


\* the step of _merge_split_lines that consumes a non-blank line that is not
\* a heading while there is prior output
BodyLineStep ==
    /\ pc = "merge"
    /\ mi < Len(raw)
    /\ mi' = mi + 1
    /\ Strip(raw[mi + 1]) # ""
    /\ ~IsChapterLine(Strip(raw[mi + 1]))
    /\ merged_text # ""

\* the 1-based index of the last non-blank input line before line k, or 0
PrevNonBlank(k) ==
    LET before == {j \in 1..(k - 1) : Strip(raw[j]) # ""}
    IN  IF before = {} THEN 0 ELSE CHOOSE j \in before : \A m \in before : m <= j

\* input line k is a body line that ends without terminal punctuation
OpenBodyLine(k) ==
    /\ k \in 1..Len(raw)
    /\ Strip(raw[k]) # ""
    /\ ~IsChapterLine(Strip(raw[k]))
    /\ ~EndsWithAny(Strip(raw[k]), TerminalChars)

\* input line k is a single word directly after a heading
OneWordAfterHeading(k) ==
    /\ PrevNonBlank(k) # 0
    /\ IsChapterLine(Strip(raw[PrevNonBlank(k)]))
    /\ Len(Split(StripTags(Strip(raw[k])))) = 1

\* the current line is appended to the current logical line after one space
Joined == merged_text' = merged_text \o " " \o Strip(raw[mi + 1])

(***************************************************************************)
(* C19  Continuation rule.  As claimed: a non-heading, non-blank line met  *)
(* with prior output is joined after one space when that output ends in    *)
(* neither terminal punctuation nor a line break, and starts a new logical *)
(* line otherwise; and a body line that ends without terminal punctuation  *)
(* is always joined with the next non-blank line that is not a heading.    *)
(***************************************************************************)
C19_Continuation ==
    [][BodyLineStep =>
          /\ IF ~EndsWithAny(merged_text, TerminalChars) THEN Joined
             ELSE \E tail \in {"", "\n"} :
                      merged_text' =
                          merged_text \o "\n" \o Strip(raw[mi + 1]) \o tail
          /\ OpenBodyLine(PrevNonBlank(mi + 1)) => Joined]_vars

(***************************************************************************)
(* C19 (amended)  Continuation rule: a non-heading, non-blank line met     *)
(* with prior output is joined after one space when that output ends in    *)
(* neither terminal punctuation nor a line break, and starts a new logical *)
(* line otherwise, itself closed by a line break when it is a single word  *)
(* directly after a heading.  A body line that ends without terminal       *)
(* punctuation is joined with the next non-blank line that is not a        *)
(* heading, unless it is such a single word directly after a heading.      *)
(***************************************************************************)
C19_ContinuationExceptSubtitle ==
    [][BodyLineStep =>
          /\ IF ~EndsWithAny(merged_text, TerminalChars) THEN Joined
             ELSE merged_text' =
                      merged_text \o "\n" \o Strip(raw[mi + 1]) \o
                          (IF OneWordAfterHeading(mi + 1) THEN "\n" ELSE "")
          /\ (/\ OpenBodyLine(PrevNonBlank(mi + 1))
              /\ ~OneWordAfterHeading(PrevNonBlank(mi + 1))) => Joined]_vars

\* the one-word line after the first heading is closed by a line break, and
\* the split sentence after it is joined
C19_Witness ==
    /\ pc = "merge"
    /\ raw = ScenarioLines
    /\ mi = 5
    /\ merged_text =
           "\nCHAPTER ONE\n\nIntro\n\nIt was a dark night, and the wind howled."


\* the place of a stage in convert()'s try block
StageIndex ==
    [st \in Stages |->
        CASE st = "extract" -> 1 [] st = "merge" -> 2 [] st = "detect" -> 3
          [] st = "intro" -> 4 [] st = "chapters" -> 5
          [] st = "navigation" -> 6 [] st = "write" -> 7]

\* the stage has left no trace: it has not begun
StageNotBegun(st) ==
    CASE st = "extract" -> raw = <<>> /\ items = <<>>
      [] st = "merge" -> mi = 0 /\ merged_text = ""
      [] st = "detect" -> lines = <<>> /\ di = 0 /\ chapters = <<>>
      [] st = "intro" -> intro_chapter = <<>>
      [] st = "chapters" -> chapter_items = <<>>
      [] st = "navigation" -> spine = <<>> /\ toc = <<>>
      [] st = "write" -> epub_file = "absent"

\* no stage after st has begun
NoStageAfter(st) ==
    \A later \in Stages : StageIndex[later] > StageIndex[st] => StageNotBegun(later)

(***************************************************************************)
(* C21  Abort on any failure.  As claimed: when any operation of the       *)
(* extraction or packaging collaborator has raised during the run, be it   *)
(* caught where it arose or not, convert() returns False and no stage      *)
(* after the faulty one has begun.                                         *)
(***************************************************************************)
C21_AbortOnAnyFault ==
    (ConvertReturned /\ (warnings # {} \/ fault # "none")) =>
        /\ result = "False"
        /\ NoStageAfter(IF fault # "none" THEN fault ELSE "extract")

\* a fault that leaves _extract_text_from_pdf: opening the document, reaching
\* a page, or reading a page's plain text after its formatted text failed
ExtractionAborts ==
    \/ "open" \in failing
    \/ document # <<>> /\ "page" \in failing
    \/ document # <<>> /\ "formatting" \in failing /\ "plain" \in failing

(***************************************************************************)
(* C21 (amended)  Abort on a propagated failure: a fault in opening the    *)
(* document, in reaching a page, in reading a page's plain text after its  *)
(* formatted text failed, or in any later stage aborts the run: convert()  *)
(* returns False and no stage after the faulty one has begun.  A fault in  *)
(* extracting the cover image, in reading the formatted text, in           *)
(* extracting page images or in compressing an image is logged as a        *)
(* warning and absorbed: the run goes on and, with no other fault, returns *)
(* True with the file written.                                             *)
(***************************************************************************)
C21_AbortOnPropagatedFault ==
    ConvertReturned =>
        /\ fault # "none" => result = "False" /\ NoStageAfter(fault)
        /\ fault = "extract" <=> ExtractionAborts
        /\ fault = "none" => result = "True" /\ epub_file = "complete"
        /\ warnings \subseteq {"cover", "formatting", "images", "compress"}

\* a run that returned True although the cover, the formatted text and the
\* image compression had failed
C21_Witness ==
    /\ ConvertReturned
    /\ warnings = {"cover", "formatting", "compress"}
    /\ result = "True"
    /\ epub_file = "complete"
    /\ items # <<>>


\* the detector's state before its first line
DetectorStart ==
    [starts |-> <<>>, number |-> 1, prev |-> FALSE, consecutive |-> 0]

\* one iteration of the detector's loop, on the line at 0-based index k:
\* what it does to the boundaries, the expected number and the run state
DetectorStep(st, k, line) ==
    LET clean_line == CleanLine(line)
        consecutive == IF st.prev THEN st.consecutive + 1 ELSE 0
    IN  IF clean_line = "" THEN st
        ELSE IF ChapterPatternMatch(clean_line)
        THEN IF IsSkipped(clean_line, st.number, st.prev)
             THEN IF Discards(consecutive, st.starts)
                  THEN [starts |-> SubSeq(st.starts, 1, Len(st.starts) - 1),
                        number |-> st.number - 1, prev |-> FALSE,
                        consecutive |-> consecutive]
                  ELSE [st EXCEPT !.prev = FALSE, !.consecutive = consecutive]
             ELSE [starts |-> Append(st.starts, k), number |-> st.number + 1,
                   prev |-> TRUE, consecutive |-> consecutive]
        ELSE IF PrologueEpiloguePatternMatch(clean_line)
        THEN IF ~EpilogueFirst(clean_line, st.starts)
             THEN [st EXCEPT !.starts = Append(st.starts, k), !.prev = TRUE]
             ELSE st
        ELSE [st EXCEPT !.prev = FALSE]

RECURSIVE DetectorAfter(_, _)
\* the detector's state after the first n lines of lns
DetectorAfter(lns, n) ==
    IF n = 0 THEN DetectorStart
    ELSE DetectorStep(DetectorAfter(lns, n - 1), n - 1, lns[n])

RECURSIVE WithoutBlank(_)
\* the lines without the blank ones
WithoutBlank(lns) ==
    IF lns = <<>> THEN <<>>
    ELSE (IF Strip(Head(lns)) = "" THEN <<>> ELSE <<Head(lns)>>)
         \o WithoutBlank(Tail(lns))

\* how many of the lines before 0-based index i are not blank
NonBlankBefore(lns, i) == Cardinality({j \in 1..i : Strip(lns[j]) # ""})

(***************************************************************************)
(* C22  Blank lines are transparent to the detector: the step that         *)
(* processes a blank line changes neither the boundaries, the titles, the  *)
(* expected number nor the run state; and after every prefix of the text   *)
(* the boundaries (counted in non-blank lines), the expected number and    *)
(* the run state are those the detector has after the same prefix with its *)
(* blank lines deleted, so that the same non-blank lines are accepted,     *)
(* rejected and retracted.                                                 *)
(***************************************************************************)
C22_BlankTransparent ==
    /\ [][(AtLine /\ Strip(CurLine) = "" /\ di' = di + 1)
             => UNCHANGED detectVars]_vars
    /\ [](pc = "detect" =>
             LET dense == WithoutBlank(SubSeq(lines, 1, di))
                 st == DetectorAfter(dense, Len(dense))
             IN  /\ [k \in 1..Len(start_indices) |->
                        NonBlankBefore(lines, start_indices[k])] = st.starts
                 /\ chapter_number = st.number
                 /\ prev_is_chapter = st.prev
                 /\ consecutive_chapter_index = st.consecutive)

\* two headings with only a blank line between them: the second has been
\* rejected as consecutive and has retracted the first
C22_Witness ==
    /\ pc = "detect"
    /\ Len(lines) = 3
    /\ di = 3
    /\ ChapterPatternMatch(CleanLine(lines[1]))
    /\ Strip(lines[2]) = ""
    /\ ChapterPatternMatch(CleanLine(lines[3]))
    /\ chapter_number = 1
    /\ start_indices = <<>>
    /\ consecutive_chapter_index = 1


\* the handler of request r has finished
HandlerFinished(r) == requests[r].at \in {"send", "done"}

\* the uploaded PDF of a finished handler is gone, whatever the outcome
PdfRemoved == \A r \in Requests : HandlerFinished(r) => requests[r].pdf = "absent"

(***************************************************************************)
(* C23  Temporary file cleanup.  As claimed: for every request the         *)
(* uploaded PDF is gone once the handler has finished, and from some       *)
(* moment on neither the PDF nor the EPUB of the request is in the         *)
(* temporary directory any more.                                           *)
(***************************************************************************)
C23_TempFilesRemoved ==
    \A r \in Requests :
        /\ [](HandlerFinished(r) => requests[r].pdf = "absent")
        /\ <>[](requests[r].pdf = "absent" /\ requests[r].epub = "absent")


\* the registered boundaries that were accepted through the chapter pattern
ChapterBoundaries ==
    {k \in 1..Len(start_indices) : IsChapterPatternLine(lines[start_indices[k] + 1])}

(***************************************************************************)
(* C24  Expected chapter number.  As claimed: after every prefix of the    *)
(* text the expected chapter number is 1 plus the number of registered     *)
(* boundaries accepted through the chapter pattern, and so never below 1.  *)
(***************************************************************************)
C24_ExpectedNumber ==
    pc = "detect" =>
        /\ chapter_number = 1 + Cardinality(ChapterBoundaries)
        /\ chapter_number >= 1


(***************************************************************************)
(* C25  Registered boundaries: after every prefix of the text the          *)
(* boundaries are strictly increasing, each is the index of a non-blank,   *)
(* heading-classified line already processed, and there are as many titles *)
(* as boundaries, so that every segment built at the end of the text has   *)
(* its title.                                                              *)
(***************************************************************************)
C25_BoundariesWellFormed ==
    pc = "detect" =>
        /\ \A k \in 1..(Len(start_indices) - 1) :
               start_indices[k] < start_indices[k + 1]
        /\ \A k \in 1..Len(start_indices) :
               /\ start_indices[k] \in 0..(di - 1)
               /\ Strip(lines[start_indices[k] + 1]) # ""
               /\ HeadingClassified(lines[start_indices[k] + 1])
        /\ Len(original_chapter_names) = Len(start_indices)

\* a boundary and its title retracted together, then another pair appended
C25_Witness ==
    /\ pc = "detect"
    /\ di = 3
    /\ Len(lines) = 3
    /\ consecutive_chapter_index = 1
    /\ start_indices = <<2>>
    /\ original_chapter_names = <<lines[3]>>

=============================================================================
